---------------------------- MODULE Spec2Model ----------------------------
(***************************************************************************)
(* A model of cm_api/endpoints/types.py: the attribute descriptors (Attr,   *)
(* ROAttr), the reflective record base class (BaseApiObject), the list and  *)
(* config codecs (ApiList, config_to_api_list, json_to_config) and the      *)
(* command poller (ApiCommand.fetch / wait / abort).                        *)
(*                                                                         *)
(* Python and JSON values are tagged records; every tag has field names of  *)
(* its own, so that any two values can be compared:                         *)
(*   [k |-> "none"]                     None / null                         *)
(*   [k |-> "bool", b |-> TRUE]         a boolean                           *)
(*   [k |-> "int", i |-> 1]             an integer                          *)
(*   [k |-> "str", s |-> "a"]           a string                            *)
(*   [k |-> "datetime", year, ...]      a datetime.datetime                 *)
(*   [k |-> "list", l |-> <<...>>]      a python list / JSON array          *)
(*   [k |-> "dict", d |-> [name |-> v]] a python dict / JSON object         *)
(*   [k |-> "apilist", objects]         an ApiList instance                 *)
(*   [k |-> "obj", t, r, a]             a BaseApiObject instance of class t,*)
(*                                      _resource_root r, instance          *)
(*                                      attributes a (name -> value)        *)
(*   [k |-> "root"]                     a resource root (transport handle)  *)
(*   [k |-> "raise", es |-> {..}]       a raised exception; es is the set   *)
(*                                      of exceptions the call can raise    *)
(*                                      (a dict is iterated in an order the *)
(*                                      interpreter chooses, so the first   *)
(*                                      offending key is not determined)    *)
(***************************************************************************)
EXTENDS Integers, Sequences, FiniteSets, TLC

VARIABLES
  \* ---- the command poller (ApiCommand.fetch / wait / abort)
  self,       \* the ApiCommand instance the methods are called on
  pc,         \* position of the caller: "idle", inside wait(), "returned", "raised"
  call,       \* the method in progress or last finished, and its timeout
  clock,      \* the value time.time() reads
  deadline,   \* wait()'s local 'deadline' (None when no timeout was given)
  now,        \* wait()'s local 'now', the last reading taken in the loop
  cmd,        \* wait()'s local 'cmd', the snapshot the last fetch returned
  polls,      \* the 'active' flag of every snapshot fetched by this call, in order
  sleeps,     \* the duration of every time.sleep() of this call, in order
  requests,   \* the requests this call made of the resource root: [method, path]
  result,     \* what the finished call returned or raised
  \* ---- the record framework (BaseApiObject)
  obj,        \* the instance under test, or NoObject
  last,       \* the last operation applied: its inputs, outcome and pre-state
  nmut,       \* number of mutating calls applied to obj since it was created
  \* ---- the codecs (Attr.to_json / from_json, to_json_dict / from_json_dict)
  stage,      \* position in the decode / encode / decode pipeline
  ctype,      \* the record class, or "Attr" for a bare descriptor
  cattr,      \* the descriptor used when ctype = "Attr"
  input,      \* the JSON document decoded first
  dec,        \* the value decoded from input
  enc,        \* to_json / to_json_dict of dec with preserve_ro = TRUE
  redec       \* the value decoded from enc

cmdvars == <<self, pc, call, clock, deadline, now, cmd, polls, sleeps, requests, result>>
objvars == <<obj, last, nmut>>
codecvars == <<stage, ctype, cattr, input, dec, enc, redec>>
vars == <<cmdvars, objvars, codecvars>>

-----------------------------------------------------------------------------
(* Values *)

PyNone == [k |-> "none"]
PyBool(v) == [k |-> "bool", b |-> v]
PyInt(v) == [k |-> "int", i |-> v]
PyStr(v) == [k |-> "str", s |-> v]
PyDateTime(year, month, day, hour, minute, second, microsecond) ==
  [k |-> "datetime", year |-> year, month |-> month, day |-> day, hour |-> hour,
   minute |-> minute, second |-> second, microsecond |-> microsecond]
ApiList(objects) == [k |-> "apilist", objects |-> objects]
PyList(v) == [k |-> "list", l |-> v]
PyDict(v) == [k |-> "dict", d |-> v]
ResourceRoot == [k |-> "root"]
Instance(t, r, a) == [k |-> "obj", t |-> t, r |-> r, a |-> a]
Raise(es) == [k |-> "raise", es |-> es]

IsRaise(v) == v.k = "raise"

\* The exceptions of the module and of the interpreter.
InvalidProperty == "AttributeError: Invalid property"
ReadOnly == "AttributeError: read only"
AttributeError == "AttributeError"
TypeError == "TypeError"
ValueError == "ValueError"
KeyError == "KeyError"

EmptyDict == <<>>

\* The function f with every value computed (TLC would otherwise compute f[a]
\* again each time it is used).
Explicit(f) == f @@ <<>>

\* The member of a set of one: The({e(x) : x \in {v}}) is e(v), with v
\* computed once however often e uses it.
The(S) == CHOOSE x \in S : TRUE

\* d with key n bound to v (dict item assignment, object.__setattr__).
Put(d, n, v) == Explicit([m \in DOMAIN d \cup {n} |-> IF m = n THEN v ELSE d[m]])

\* A sequence enumerating the finite set S, in an order of TLC's choosing.
RECURSIVE SetToSeq(_)
SetToSeq(S) ==
  IF S = {} THEN <<>>
  ELSE LET e == CHOOSE e \in S : TRUE IN <<e>> \o SetToSeq(S \ {e})

-----------------------------------------------------------------------------
(* Attribute descriptors and the schemas of the record classes *)

\* Attr(atype, rw, is_api_list); atype is "" (no type), "datetime" or a class.
Attr(atype, rw, is_api_list) ==
  [k |-> "attr", present |-> TRUE, atype |-> atype, rw |-> rw,
   is_api_list |-> is_api_list]

\* ROAttr(atype, is_api_list): the same, read-only.
ROAttr(atype, is_api_list) == Attr(atype, FALSE, is_api_list)

\* A schema entry of None: "default attribute behavior".
NoAttr ==
  [k |-> "attr", present |-> FALSE, atype |-> "", rw |-> TRUE,
   is_api_list |-> FALSE]

DateTimeType == "datetime"

\* A schema all of whose entries are None.
AllNone(names) == [n \in names |-> NoAttr]

ApiHostRef_ATTRIBUTES == AllNone({"hostId"})

ApiServiceRef_ATTRIBUTES == AllNone({"clusterName", "serviceName", "peerName"})

ApiClusterRef_ATTRIBUTES == AllNone({"clusterName"})

ApiRoleRef_ATTRIBUTES == AllNone({"clusterName", "serviceName", "roleName"})

ApiRoleConfigGroupRef_ATTRIBUTES == AllNone({"roleConfigGroupName"})

ApiCommand_ATTRIBUTES ==
  [ id            |-> ROAttr("", FALSE),
    name          |-> ROAttr("", FALSE),
    startTime     |-> ROAttr(DateTimeType, FALSE),
    endTime       |-> ROAttr(DateTimeType, FALSE),
    active        |-> ROAttr("", FALSE),
    success       |-> ROAttr("", FALSE),
    resultMessage |-> ROAttr("", FALSE),
    clusterRef    |-> ROAttr("ApiClusterRef", FALSE),
    serviceRef    |-> ROAttr("ApiServiceRef", FALSE),
    roleRef       |-> ROAttr("ApiRoleRef", FALSE),
    hostRef       |-> ROAttr("ApiHostRef", FALSE),
    children      |-> ROAttr("ApiCommand", TRUE),
    parent        |-> ROAttr("ApiCommand", FALSE),
    resultDataUrl |-> ROAttr("", FALSE) ]

ApiMetricData_ATTRIBUTES ==
  [ timestamp |-> ROAttr(DateTimeType, FALSE),
    value     |-> ROAttr("", FALSE) ]

ApiMetric_ATTRIBUTES ==
  [ name        |-> ROAttr("", FALSE),
    context     |-> ROAttr("", FALSE),
    unit        |-> ROAttr("", FALSE),
    data        |-> ROAttr("ApiMetricData", FALSE),
    displayName |-> ROAttr("", FALSE),
    description |-> ROAttr("", FALSE) ]

ApiActivity_ATTRIBUTES ==
  [ n \in { "name", "type", "parent", "startTime", "finishTime", "id", "status",
            "user", "group", "inputDir", "outputDir", "mapper", "combiner",
            "reducer", "queueName", "schedulerPriority" } |-> ROAttr("", FALSE) ]

ApiCmPeer_ATTRIBUTES == AllNone({"name", "url", "username", "password"})

ApiHdfsReplicationArguments_ATTRIBUTES ==
  [ n \in { "sourceService", "sourcePath", "destinationPath",
            "mapreduceServiceName", "userName", "numMaps", "dryRun",
            "schedulerPoolName", "abortOnError", "preservePermissions",
            "preserveBlockSize", "preserveReplicationCount",
            "removeMissingFiles" } |->
      IF n = "sourceService" THEN Attr("ApiServiceRef", TRUE, FALSE) ELSE NoAttr ]

ApiHiveTable_ATTRIBUTES == AllNone({"database", "tableName"})

ApiHiveReplicationArguments_ATTRIBUTES ==
  [ sourceService |-> Attr("ApiServiceRef", TRUE, FALSE),
    tableFilters  |-> Attr("ApiHiveTable", TRUE, FALSE),
    exportDir     |-> NoAttr,
    force         |-> NoAttr,
    replicateData |-> NoAttr,
    hdfsArguments |-> Attr("ApiHdfsReplicationArguments", TRUE, FALSE),
    dryRun        |-> NoAttr ]

ApiReplicationSchedule_ATTRIBUTES ==
  [ startTime      |-> Attr(DateTimeType, TRUE, FALSE),
    endTime        |-> Attr(DateTimeType, TRUE, FALSE),
    interval       |-> NoAttr,
    intervalUnit   |-> NoAttr,
    paused         |-> NoAttr,
    hdfsArguments  |-> Attr("ApiHdfsReplicationArguments", TRUE, FALSE),
    hiveArguments  |-> Attr("ApiHiveReplicationArguments", TRUE, FALSE),
    alertOnStart   |-> NoAttr,
    alertOnSuccess |-> NoAttr,
    alertOnFail    |-> NoAttr,
    alertOnAbort   |-> NoAttr,
    id             |-> ROAttr("", FALSE),
    nextRun        |-> ROAttr(DateTimeType, FALSE),
    history        |-> ROAttr("", FALSE) ]

ApiConfig_ATTRIBUTES ==
  [ name              |-> NoAttr,
    value             |-> NoAttr,
    required          |-> ROAttr("", FALSE),
    default           |-> ROAttr("", FALSE),
    displayName       |-> ROAttr("", FALSE),
    description       |-> ROAttr("", FALSE),
    relatedName       |-> ROAttr("", FALSE),
    validationState   |-> ROAttr("", FALSE),
    validationMessage |-> ROAttr("", FALSE) ]

\* The record classes of the model. BaseApiObject is the base class, with the
\* empty schema; every other class derives from it directly.
Classes ==
  { "BaseApiObject", "ApiHostRef", "ApiServiceRef", "ApiClusterRef", "ApiRoleRef",
    "ApiRoleConfigGroupRef", "ApiCommand", "ApiMetricData", "ApiMetric",
    "ApiActivity", "ApiCmPeer", "ApiHdfsReplicationArguments", "ApiHiveTable",
    "ApiHiveReplicationArguments", "ApiReplicationSchedule", "ApiConfig" }

\* cls._get_attributes()
get_attributes(cls) ==
  CASE cls = "ApiHostRef" -> ApiHostRef_ATTRIBUTES
    [] cls = "ApiServiceRef" -> ApiServiceRef_ATTRIBUTES
    [] cls = "ApiClusterRef" -> ApiClusterRef_ATTRIBUTES
    [] cls = "ApiRoleRef" -> ApiRoleRef_ATTRIBUTES
    [] cls = "ApiRoleConfigGroupRef" -> ApiRoleConfigGroupRef_ATTRIBUTES
    [] cls = "ApiCommand" -> ApiCommand_ATTRIBUTES
    [] cls = "ApiMetricData" -> ApiMetricData_ATTRIBUTES
    [] cls = "ApiMetric" -> ApiMetric_ATTRIBUTES
    [] cls = "ApiActivity" -> ApiActivity_ATTRIBUTES
    [] cls = "ApiCmPeer" -> ApiCmPeer_ATTRIBUTES
    [] cls = "ApiHdfsReplicationArguments" -> ApiHdfsReplicationArguments_ATTRIBUTES
    [] cls = "ApiHiveReplicationArguments" -> ApiHiveReplicationArguments_ATTRIBUTES
    [] cls = "ApiReplicationSchedule" -> ApiReplicationSchedule_ATTRIBUTES
    [] cls = "ApiHiveTable" -> ApiHiveTable_ATTRIBUTES
    [] cls = "ApiConfig" -> ApiConfig_ATTRIBUTES
    [] OTHER -> [n \in {} |-> NoAttr]

\* The keyword parameters of the class's own __init__, for the classes that
\* define one; the other classes inherit BaseApiObject.__init__(**attrs).
HasOwnInit(cls) ==
  cls \in { "ApiHostRef", "ApiServiceRef", "ApiClusterRef", "ApiRoleRef",
            "ApiRoleConfigGroupRef", "ApiMetricData", "ApiMetric", "ApiActivity",
            "ApiConfig" }

InitParams(cls) ==
  CASE cls = "ApiHostRef" -> {"hostId"}
    [] cls = "ApiServiceRef" -> {"serviceName", "clusterName", "peerName"}
    [] cls = "ApiClusterRef" -> {"clusterName"}
    [] cls = "ApiRoleRef" -> {"serviceName", "roleName", "clusterName"}
    [] cls = "ApiRoleConfigGroupRef" -> {"roleConfigGroupName"}
    [] cls = "ApiConfig" -> {"name", "value"}
    [] OTHER -> {}

\* A fault: the test of _update the other way round.
IsSubclassFlipped(a, b) == a = b \/ a = "BaseApiObject"

\* issubclass(a, b): the class hierarchy of the module is flat.
IsSubclass(a, b) == a = b \/ b = "BaseApiObject"

\* isinstance(o, cls)
IsInstance(o, cls) == o.k = "obj" /\ IsSubclass(o.t, cls)

\* BaseApiObject._WHITELIST
WHITELIST == {"_resource_root", "_attributes"}

\* ApiList.LIST_KEY
LIST_KEY == "items"

-----------------------------------------------------------------------------
(* The interpreter: truth values, len(), dict keys, strftime / strptime *)

\* bool(v)
Truthy(v) ==
  CASE v.k = "none" -> FALSE
    [] v.k = "bool" -> v.b
    [] v.k = "int" -> v.i # 0
    [] v.k = "str" -> v.s # ""
    [] v.k = "list" -> v.l # <<>>
    [] v.k = "dict" -> DOMAIN v.d # {}
    [] v.k = "apilist" -> v.objects # <<>>
    [] OTHER -> TRUE

HasLen(v) == v.k \in {"str", "list", "dict", "apilist"}

\* len(v), for a value that has one
PyLen(v) ==
  CASE v.k = "str" -> Len(v.s)
    [] v.k = "list" -> Len(v.l)
    [] v.k = "dict" -> Cardinality(DOMAIN v.d)
    [] v.k = "apilist" -> Len(v.objects)
    [] OTHER -> 0

Hashable(v) == v.k \notin {"list", "dict"}

\* The key under which a dict holds the value v (a string is its own text).
KeyOf(v) == IF v.k = "str" THEN v.s ELSE ToString(v)

\* The results r[1], r[2], ... of evaluating the elements of a list in order:
\* the first exception raised, or the list of the results.
Collect(results) ==
  The({ IF \E i \in DOMAIN r : IsRaise(r[i])
          THEN r[CHOOSE i \in DOMAIN r :
                   IsRaise(r[i]) /\ \A j \in 1..(i - 1) : ~IsRaise(r[j])]
          ELSE PyList(r) : r \in {Explicit(results)} })

\* The results f[name] of evaluating the items of a dict, which are visited
\* in an order the interpreter chooses: any of the exceptions, or the dict.
CollectDict(results) ==
  The({ IF \E n \in DOMAIN f : IsRaise(f[n])
          THEN Raise(UNION {f[n].es : n \in {m \in DOMAIN f : IsRaise(f[m])}})
          ELSE PyDict(f) : f \in {Explicit(results)} })

DigitChar(d) == SubSeq("0123456789", d + 1, d + 1)

IsDigits(s) == \A i \in 1..Len(s) : \E d \in 0..9 : DigitChar(d) = SubSeq(s, i, i)

\* n in decimal, zero-padded to w digits (%Y, %m, %d, %H, %M, %S, %f)
RECURSIVE Pad(_, _)
Pad(n, w) == IF w = 0 THEN "" ELSE Pad(n \div 10, w - 1) \o DigitChar(n % 10)

\* The number a string of digits denotes.
RECURSIVE ParseNum(_)
ParseNum(s) ==
  IF Len(s) = 0 THEN 0
  ELSE 10 * ParseNum(SubSeq(s, 1, Len(s) - 1))
       + (CHOOSE d \in 0..9 : DigitChar(d) = SubSeq(s, Len(s), Len(s)))

\* The first year datetime.strftime accepts (Python 2).
MinStrftimeYear == 1900

\* value.strftime(Attr.DATE_FMT)
strftime(value) ==
  IF value.year < MinStrftimeYear THEN Raise({ValueError})
  ELSE PyStr(Pad(value.year, 4) \o "-" \o Pad(value.month, 2) \o "-"
             \o Pad(value.day, 2) \o "T" \o Pad(value.hour, 2) \o ":"
             \o Pad(value.minute, 2) \o ":" \o Pad(value.second, 2) \o "."
             \o Pad(value.microsecond, 6) \o "Z")

\* datetime.datetime.strptime(data, Attr.DATE_FMT), for the zero-padded texts
\* strftime writes and for texts that do not match the pattern at all (strptime
\* also reads fields written without padding; the model's inputs hold none).
strptime(data) ==
  IF data.k # "str" THEN Raise({TypeError})
  ELSE LET s == data.s
           F(i, j) == SubSeq(s, i, j)
           shaped ==
             /\ Len(s) = 27
             /\ F(5, 5) = "-" /\ F(8, 8) = "-" /\ F(11, 11) = "T"
             /\ F(14, 14) = ":" /\ F(17, 17) = ":" /\ F(20, 20) = "."
             /\ F(27, 27) = "Z"
             /\ IsDigits(F(1, 4)) /\ IsDigits(F(6, 7)) /\ IsDigits(F(9, 10))
             /\ IsDigits(F(12, 13)) /\ IsDigits(F(15, 16)) /\ IsDigits(F(18, 19))
             /\ IsDigits(F(21, 26))
       IN IF ~shaped THEN Raise({ValueError})
          ELSE LET dt == PyDateTime(ParseNum(F(1, 4)), ParseNum(F(6, 7)),
                                    ParseNum(F(9, 10)), ParseNum(F(12, 13)),
                                    ParseNum(F(15, 16)), ParseNum(F(18, 19)),
                                    ParseNum(F(21, 26)))
               IN IF /\ dt.month \in 1..12 /\ dt.day \in 1..31 /\ dt.hour \in 0..23
                     /\ dt.minute \in 0..59 /\ dt.second \in 0..59
                  THEN dt ELSE Raise({ValueError})

-----------------------------------------------------------------------------
(* BaseApiObject, Attr, ApiList and the config helpers *)

\* The instance object.__new__ and the first loop of BaseApiObject.__init__
\* leave: every writable attribute set to None, no read-only attribute set.
NewInstance(cls, resource_root) ==
  Instance(cls, resource_root,
           Explicit([n \in {m \in DOMAIN get_attributes(cls) :
                              ~get_attributes(cls)[m].present
                              \/ get_attributes(cls)[m].rw}
                       |-> PyNone]))

\* A fault: _check_attr that lets a read-only attribute through.
check_attr_forgets_ro(cls, name, allow_ro) ==
  IF name \notin DOMAIN get_attributes(cls) THEN Raise({InvalidProperty})
  ELSE get_attributes(cls)[name]

\* A fault: _check_attr that takes a name the schema lacks for a plain one.
check_attr_lenient(cls, name, allow_ro) ==
  IF name \notin DOMAIN get_attributes(cls) THEN NoAttr
  ELSE IF ~allow_ro /\ get_attributes(cls)[name].present
          /\ ~get_attributes(cls)[name].rw THEN Raise({ReadOnly})
  ELSE get_attributes(cls)[name]

\* self._check_attr(name, allow_ro): the descriptor, or the exception raised
check_attr(cls, name, allow_ro) ==
  IF name \notin DOMAIN get_attributes(cls) THEN Raise({InvalidProperty})
  ELSE LET attr == get_attributes(cls)[name]
       IN IF ~allow_ro /\ attr.present /\ ~attr.rw THEN Raise({ReadOnly})
          ELSE attr

\* config_to_api_list(dic): the items follow the dict's iteration order, which
\* the interpreter chooses.
config_to_api_list(dic) ==
  LET keys == SetToSeq(DOMAIN dic)
  IN PyDict([items |->
       PyList(Explicit([i \in DOMAIN keys |->
         PyDict([name |-> PyStr(keys[i]), value |-> dic[keys[i]]])]))])

\* { ApiList.LIST_KEY : [...] } around the encoded members, or the exception
Envelope(c) == The({ IF IsRaise(l) THEN l ELSE PyDict([items |-> l]) : l \in {c} })

\* ApiList(objects) around the decoded members, or the exception
Listed(c) == The({ IF IsRaise(l) THEN l ELSE ApiList(l.l) : l \in {c} })

\* The config dict json_to_config builds from the entries `items` and their
\* values c: a name that occurs twice keeps its last value.
ConfigDict(items, c) ==
  LET key(i) == KeyOf(items[i].d["name"])
  IN The({ IF IsRaise(v) THEN v
           ELSE PyDict(Explicit([n \in {key(i) : i \in DOMAIN items} |->
                  v.l[CHOOSE i \in DOMAIN items :
                        key(i) = n /\ \A j \in DOMAIN items : key(j) = n => j <= i]]))
           : v \in {c} })

\* object.__setattr__(self, k, v) for every item of attrs, whose values are
\* c.d, or the exception raised on the way
Assigned(o, attrs, c) ==
  The({ IF IsRaise(v) THEN v
        ELSE [o EXCEPT !.a = Explicit([n \in DOMAIN o.a \cup DOMAIN attrs |->
                                IF n \in DOMAIN attrs THEN v.d[n] ELSE o.a[n]])]
        : v \in {c} })

\* to_json_dict's "except AttributeError: pass": an attribute whose encoding
\* raised AttributeError is left out, like one the instance does not have.
Uncaught(results) ==
  The({ Explicit([n \in {m \in DOMAIN f :
                           ~(IsRaise(f[m]) /\ f[m].es = {AttributeError})} |-> f[n]])
        : f \in {Explicit(results)} })

RECURSIVE to_json(_, _, _), to_json_dict(_, _), ApiList_to_json_dict(_)
RECURSIVE from_json(_, _, _), from_json_dict(_, _, _), set_attrs(_, _, _, _)
RECURSIVE ApiList_from_json_dict(_, _, _), json_to_config(_, _)

\* ApiList.to_json_dict(self)
ApiList_to_json_dict(alist) ==
  Envelope(Collect([i \in DOMAIN alist.objects |->
    IF alist.objects[i].k = "obj" THEN to_json_dict(alist.objects[i], FALSE)
    ELSE IF alist.objects[i].k = "apilist"
      THEN ApiList_to_json_dict(alist.objects[i])
    ELSE Raise({AttributeError})]))

\* Attr.to_json(self, value, preserve_ro)
to_json(attr, value, preserve_ro) ==
  IF value.k = "obj" THEN to_json_dict(value, preserve_ro)
  ELSE IF value.k = "apilist"
    \* value.to_json_dict(preserve_ro): ApiList.to_json_dict takes only self
    THEN Raise({TypeError})
  ELSE IF value.k = "dict" /\ attr.atype = "ApiConfig"
    THEN config_to_api_list(value.d)
  ELSE IF value.k = "datetime" THEN strftime(value)
  ELSE IF value.k = "list"
    THEN IF attr.is_api_list
           THEN ApiList_to_json_dict(ApiList(value.l))
           ELSE Collect([i \in DOMAIN value.l |->
                           to_json(attr, value.l[i], preserve_ro)])
  ELSE value

\* BaseApiObject.to_json_dict(self, preserve_ro)
to_json_dict(o, preserve_ro) ==
  LET attrs == get_attributes(o.t)
      names == {n \in DOMAIN attrs :
                  /\ ~(~preserve_ro /\ attrs[n].present /\ ~attrs[n].rw)
                  /\ n \in DOMAIN o.a}
  IN CollectDict(Uncaught([n \in names |->
                    IF attrs[n].present
                      THEN to_json(attrs[n], o.a[n], preserve_ro)
                      ELSE o.a[n]]))

\* json_to_config(dic, full)
json_to_config(dic, full) ==
  LET items == dic.d[LIST_KEY].l
  IN ConfigDict(items, Collect([i \in DOMAIN items |->
       LET entry == items[i]
       IN IF entry.k # "dict" THEN Raise({TypeError})
          ELSE IF "name" \notin DOMAIN entry.d THEN Raise({KeyError})
          ELSE IF ~Hashable(entry.d["name"]) THEN Raise({TypeError})
          ELSE IF full THEN from_json_dict("ApiConfig", entry, PyNone)
          ELSE IF "value" \in DOMAIN entry.d THEN entry.d["value"]
          ELSE PyNone]))

\* ApiList.from_json_dict(member_cls, dic, resource_root)
ApiList_from_json_dict(member_cls, dic, resource_root) ==
  IF dic.k # "dict" THEN Raise({TypeError})
  ELSE IF LIST_KEY \notin DOMAIN dic.d THEN Raise({KeyError})
  ELSE IF dic.d[LIST_KEY].k # "list" THEN
         \* a text or a dict is iterated too, and its members have no iteritems
         IF dic.d[LIST_KEY].k \in {"str", "dict"}
           THEN IF Truthy(dic.d[LIST_KEY])
                  THEN Raise({AttributeError}) ELSE ApiList(<<>>)
           ELSE Raise({TypeError})
  ELSE IF member_cls \notin Classes THEN
         IF dic.d[LIST_KEY].l = <<>> THEN ApiList(<<>>) ELSE Raise({AttributeError})
  ELSE Listed(Collect([i \in DOMAIN dic.d[LIST_KEY].l |->
         from_json_dict(member_cls, dic.d[LIST_KEY].l[i], resource_root)]))

\* Attr.from_json(self, resource_root, data)
from_json(attr, resource_root, data) ==
  IF data.k = "none" THEN PyNone
  ELSE IF attr.atype = DateTimeType THEN strptime(data)
  ELSE IF attr.atype = "ApiConfig" THEN
    IF data.k # "dict" THEN Raise({TypeError})
    ELSE IF LIST_KEY \notin DOMAIN data.d THEN Raise({KeyError})
    ELSE IF ~Truthy(data.d[LIST_KEY]) THEN PyDict(EmptyDict)
    ELSE IF data.d[LIST_KEY].k = "dict" THEN Raise({KeyError})
    ELSE IF data.d[LIST_KEY].k # "list" THEN Raise({TypeError})
    ELSE LET first == data.d[LIST_KEY].l[1]
         IN IF ~HasLen(first) THEN Raise({TypeError})
            ELSE json_to_config(data, PyLen(first) = 2)
  ELSE IF attr.is_api_list
    THEN ApiList_from_json_dict(attr.atype, data, resource_root)
  ELSE IF data.k = "list"
    THEN Collect([i \in DOMAIN data.l |-> from_json(attr, resource_root, data.l[i])])
  ELSE IF attr.atype \in Classes
    THEN from_json_dict(attr.atype, data, resource_root)
  ELSE data

\* BaseApiObject._set_attrs(self, attrs, allow_ro, from_json) on the instance o:
\* the instance afterwards, or the exception raised.
set_attrs(o, attrs, allow_ro, decode) ==
  Assigned(o, attrs, CollectDict([n \in DOMAIN attrs |->
    LET attr == check_attr(o.t, n, allow_ro)
    IN IF IsRaise(attr) THEN attr
       ELSE IF attr.present /\ decode THEN from_json(attr, o.r, attrs[n])
       ELSE attrs[n]]))

\* BaseApiObject.__init__(self, resource_root, **attrs)
BaseApiObject_init(cls, resource_root, attrs) ==
  IF DOMAIN attrs = {} THEN NewInstance(cls, resource_root)
  ELSE The({ set_attrs(self_, attrs, FALSE, FALSE) :
               self_ \in {NewInstance(cls, resource_root)} })

\* cls(resource_root, **kwargs): a class's own __init__ binds only its declared
\* keyword parameters, each defaulting to None, and hands them all over through
\* BaseApiObject.init(self, resource_root, locals()).
Construct(cls, resource_root, kwargs) ==
  IF ~HasOwnInit(cls) THEN BaseApiObject_init(cls, resource_root, kwargs)
  ELSE IF ~(DOMAIN kwargs \subseteq InitParams(cls)) THEN Raise({TypeError})
  ELSE BaseApiObject_init(cls, resource_root,
         Explicit([n \in InitParams(cls) |->
                     IF n \in DOMAIN kwargs THEN kwargs[n] ELSE PyNone]))

\* BaseApiObject.from_json_dict(cls, dic, resource_root): "obj = cls(resource_root)",
\* then "obj._set_attrs(dic, allow_ro=True)", which asks dic for iteritems
from_json_dict(cls, dic, resource_root) ==
  IF dic.k # "dict" THEN Raise({AttributeError})
  ELSE The({ set_attrs(obj_, dic.d, TRUE, TRUE) :
               obj_ \in {Construct(cls, resource_root, EmptyDict)} })

\* getattr(o, name): the instance attribute, or AttributeError (no class of
\* the module has a class attribute named like a key of its schema)
GetAttr(o, name) ==
  IF name \in DOMAIN o.a THEN o.a[name] ELSE Raise({AttributeError})

-----------------------------------------------------------------------------
(* ApiCommand: fetch, wait, abort *)

\* Bounds of the model.
MaxClock == 12       \* the clock is not followed beyond this reading
MaxTimeout == 6      \* wait() is called with timeout None or 0..MaxTimeout
MaxFetchTime == 2    \* a request takes 0..MaxFetchTime units of time
MaxOversleep == 1    \* time.sleep(t) returns after t..t+MaxOversleep units
MaxPolls == 3        \* at most this many requests that take no time at all

\* ApiCommand.SYNCHRONOUS_COMMAND_ID
SYNCHRONOUS_COMMAND_ID == -1

\* SLEEP_SEC, local to wait()
SLEEP_SEC == 5

\* A reference to an instance: two references are the same instance iff their
\* ref is equal. The instance the methods are called on has ref 0.
Ref(n, o) == [k |-> "ref", ref |-> n, obj |-> o]

\* What a call comes to: the value returned or the exception raised, and the
\* requests made of the resource root.
Outcome(ret, reqs) == [ret |-> ret, reqs |-> reqs]

Request(method, path) == [method |-> method, path |-> path]

\* The command ids, resource roots and snapshots the model draws from.
CommandIds == {SYNCHRONOUS_COMMAND_ID, 7}

Roots == {ResourceRoot, PyNone}

\* The JSON the server answers a request about command id with: the command
\* is still running, or it has ended with or without success.
ServerStates == {"active", "succeeded", "failed"}

Response(id, st) ==
  IF st = "active"
    THEN PyDict([id |-> id, name |-> PyStr("Restart"), active |-> PyBool(TRUE)])
    ELSE PyDict([id |-> id, name |-> PyStr("Restart"), active |-> PyBool(FALSE),
                 success |-> PyBool(st = "succeeded")])

\* ApiCommand._path(self)
path(c) ==
  LET id == GetAttr(c.obj, "id")
  IN IF IsRaise(id) THEN id
     ELSE IF id.k \notin {"int", "bool"} THEN Raise({TypeError})
     ELSE IF id.k = "bool" THEN PyStr("/commands/" \o (IF id.b THEN "1" ELSE "0"))
     ELSE PyStr("/commands/" \o ToString(id.i))

\* A fault: the sentinel compared without its sign.
IsSynchronousSignLost(c) ==
  LET id == GetAttr(c.obj, "id")
  IN IF IsRaise(id) THEN id ELSE PyBool(id = PyInt(-SYNCHRONOUS_COMMAND_ID))

\* self.id == ApiCommand.SYNCHRONOUS_COMMAND_ID: true, false, or the
\* AttributeError of an instance that has no id
IsSynchronous(c) ==
  LET id == GetAttr(c.obj, "id")
  IN IF IsRaise(id) THEN id ELSE PyBool(id = PyInt(SYNCHRONOUS_COMMAND_ID))

\* "return ApiCommand.from_json_dict(resp, ...)" after the requests reqs: the
\* new instance o, which fresh names, or the exception the decoding raised
Decoded(o, reqs, fresh) ==
  The({ IF IsRaise(v) THEN Outcome(v, reqs) ELSE Outcome(Ref(fresh, v), reqs)
        : v \in {o} })

\* ApiCommand.fetch(self), the server answering resp; fresh names the instance
\* from_json_dict creates.
fetch(c, resp, fresh) ==
  LET sync == IsSynchronous(c)
  IN IF IsRaise(sync) THEN Outcome(sync, <<>>)
     ELSE IF sync.b THEN Outcome(c, <<>>)
     ELSE IF c.obj.r # ResourceRoot THEN Outcome(Raise({AttributeError}), <<>>)
     ELSE IF IsRaise(path(c)) THEN Outcome(path(c), <<>>)
     ELSE Decoded(from_json_dict("ApiCommand", resp, c.obj.r),
                  <<Request("GET", path(c).s)>>, fresh)

\* ApiCommand.abort(self), the server answering resp
abort(c, resp, fresh) ==
  LET sync == IsSynchronous(c)
  IN IF IsRaise(sync) THEN Outcome(sync, <<>>)
     ELSE IF sync.b THEN Outcome(c, <<>>)
     ELSE IF IsRaise(path(c)) THEN Outcome(path(c), <<>>)
     ELSE IF c.obj.r # ResourceRoot THEN Outcome(Raise({AttributeError}), <<>>)
     ELSE Decoded(from_json_dict("ApiCommand", resp, c.obj.r),
                  <<Request("POST", path(c).s \o "/abort")>>, fresh)

\* wait(): "if timeout is None: deadline = None; else: deadline = time.time() + timeout"
Deadline(timeout, time) ==
  IF timeout.k = "none" THEN PyNone ELSE PyInt(time + timeout.i)

\* A fault: "if cmd.active" for "if not cmd.active".
FinishedInverted(c) ==
  LET active == GetAttr(c.obj, "active")
  IN IF IsRaise(active) THEN active ELSE PyBool(Truthy(active))

\* wait(): "if not cmd.active" - true, false, or the AttributeError of a
\* snapshot that has no active attribute
Finished(c) ==
  LET active == GetAttr(c.obj, "active")
  IN IF IsRaise(active) THEN active ELSE PyBool(~Truthy(active))

\* A fault: "if deadline <= now" for "if deadline < now".
ExpiredInclusive(dl, time) == dl.i <= time

\* wait(): "if deadline < now"
Expired(dl, time) == dl.i < time

Min(a, b) == IF a < b THEN a ELSE b

\* A fault: "time.sleep(SLEEP_SEC)" whether or not there is a deadline.
SleepTimeUncapped(dl, time) == SLEEP_SEC

\* wait(): the argument of time.sleep
SleepTime(dl, time) ==
  IF dl.k = "none" THEN SLEEP_SEC ELSE Min(SLEEP_SEC, dl.i - time)

NoCall == [op |-> "none", timeout |-> PyNone]

\* The state of the poller before any call, for the instance s.
CmdStart(s) ==
  /\ self = s
  /\ pc = "idle"
  /\ call = NoCall
  /\ clock = 0
  /\ deadline = PyNone
  /\ now = 0
  /\ cmd = PyNone
  /\ polls = <<>>
  /\ sleeps = <<>>
  /\ requests = <<>>
  /\ result = PyNone

\* The commands the methods are called on: snapshots the transport layer
\* decoded, attached to a resource root or detached.
Selves ==
  { from_json_dict("ApiCommand", Response(PyInt(i), st), r) :
      i \in CommandIds, st \in ServerStates, r \in Roots }

CmdInit == \E s \in Selves : CmdStart(Ref(0, s))

CmdQuiet == CmdStart(Ref(0, NewInstance("ApiCommand", PyNone)))

\* A call that ends at once: it returns ret or raises it.
Finish(out) ==
  /\ requests' = requests \o out.reqs
  /\ result' = out.ret
  /\ pc' = IF IsRaise(out.ret) THEN "raised" ELSE "returned"

\* cmd.fetch()
CallFetch(st) ==
  /\ pc = "idle"
  /\ call' = [op |-> "fetch", timeout |-> PyNone]
  /\ Finish(fetch(self, Response(self.obj.a["id"], st), 1))
  /\ UNCHANGED <<self, clock, deadline, now, cmd, polls, sleeps>>
  /\ UNCHANGED <<objvars, codecvars>>

\* cmd.abort()
CallAbort(st) ==
  /\ pc = "idle"
  /\ call' = [op |-> "abort", timeout |-> PyNone]
  /\ Finish(abort(self, Response(self.obj.a["id"], st), 1))
  /\ UNCHANGED <<self, clock, deadline, now, cmd, polls, sleeps>>
  /\ UNCHANGED <<objvars, codecvars>>

\* cmd.wait(timeout), up to the head of the loop
CallWait(timeout) ==
  /\ pc = "idle"
  /\ timeout.k = "int" => clock + timeout.i + MaxOversleep + 1 <= MaxClock
  /\ call' = [op |-> "wait", timeout |-> timeout]
  /\ LET sync == IsSynchronous(self)
     IN IF IsRaise(sync) THEN Finish(Outcome(sync, <<>>)) /\ UNCHANGED deadline
        ELSE IF sync.b THEN Finish(Outcome(self, <<>>)) /\ UNCHANGED deadline
        ELSE /\ deadline' = Deadline(timeout, clock)
             /\ pc' = "wait_fetch"
             /\ UNCHANGED <<requests, result>>
  /\ UNCHANGED <<self, clock, now, cmd, polls, sleeps>>
  /\ UNCHANGED <<objvars, codecvars>>

\* One turn of wait()'s loop up to its sleep: "cmd = self.fetch()", which takes
\* d units of time and is answered with st, then the tests of cmd.active and of
\* the deadline.
WaitFetch(d, st) ==
  /\ pc = "wait_fetch"
  /\ clock + d <= MaxClock
  /\ d = 0 => Len(polls) < MaxPolls
  /\ clock' = clock + d
  /\ \E out \in {fetch(self, Response(self.obj.a["id"], st), Len(requests) + 1)} :
     LET done == IF IsRaise(out.ret) THEN out.ret ELSE Finished(out.ret)
     IN /\ requests' = requests \o out.reqs
        /\ IF IsRaise(out.ret)
             THEN /\ pc' = "raised" /\ result' = out.ret
                  /\ UNCHANGED <<cmd, polls, now>>
           ELSE IF IsRaise(done)
             THEN /\ pc' = "raised" /\ result' = done /\ cmd' = out.ret
                  /\ UNCHANGED <<polls, now>>
           ELSE /\ cmd' = out.ret
                /\ polls' = Append(polls, Truthy(out.ret.obj.a["active"]))
                /\ IF done.b
                     THEN pc' = "returned" /\ result' = out.ret /\ UNCHANGED now
                   ELSE IF deadline.k = "none"
                     THEN pc' = "wait_sleep" /\ UNCHANGED <<result, now>>
                   ELSE /\ now' = clock'
                        /\ IF Expired(deadline, clock')
                             THEN pc' = "returned" /\ result' = out.ret
                             ELSE pc' = "wait_sleep" /\ UNCHANGED result
  /\ UNCHANGED <<self, call, deadline, sleeps>>
  /\ UNCHANGED <<objvars, codecvars>>

\* "time.sleep(...)" at the end of a turn of the loop: it returns over units
\* of time late.
WaitSleep(over) ==
  /\ pc = "wait_sleep"
  /\ LET t == SleepTime(deadline, now)
     IN /\ clock + t + over <= MaxClock
        /\ clock' = clock + t + over
        /\ sleeps' = Append(sleeps, t)
  /\ pc' = "wait_fetch"
  /\ UNCHANGED <<self, call, deadline, now, cmd, polls, requests, result>>
  /\ UNCHANGED <<objvars, codecvars>>

Timeouts == {PyNone} \cup {PyInt(t) : t \in 0..MaxTimeout}

SlowFetch == \E d \in 1..MaxFetchTime, st \in ServerStates : WaitFetch(d, st)

CmdNext ==
  \/ \E st \in ServerStates : CallFetch(st)
  \/ \E st \in ServerStates : CallAbort(st)
  \/ \E timeout \in Timeouts : CallWait(timeout)
  \/ \E d \in 0..MaxFetchTime, st \in ServerStates : WaitFetch(d, st)
  \/ \E over \in 0..MaxOversleep : WaitSleep(over)

-----------------------------------------------------------------------------
(* BaseApiObject: construction, decoding, assignment and _update *)

\* Bounds of the model.
MaxMut == 1        \* assignments and _update calls made on one instance
MaxDepth == 1      \* levels of nested records in a fully populated document

\* BaseApiObject.__setattr__(self, name, val): the instance afterwards, or the
\* exception raised
setattr(o, name, val) ==
  IF name \notin WHITELIST /\ IsRaise(check_attr(o.t, name, FALSE))
    THEN check_attr(o.t, name, FALSE)
  ELSE IF name = "_resource_root" THEN [o EXCEPT !.r = val]
  ELSE [o EXCEPT !.a = Put(o.a, name, val)]

\* The body of _update's loop for one name: "val = getattr(api_obj, name);
\* setattr(self, name, val)", any AttributeError ignored.
update_attr(o, api_obj, name) ==
  The({ IF IsRaise(val) THEN o
        ELSE The({ IF IsRaise(r) THEN o ELSE r : r \in {setattr(o, name, val)} })
        : val \in {GetAttr(api_obj, name)} })

RECURSIVE update_loop(_, _, _)
update_loop(o, api_obj, names) ==
  IF names = <<>> THEN o
  ELSE The({ update_loop(next, api_obj, Tail(names)) :
               next \in {update_attr(o, api_obj, Head(names))} })

\* BaseApiObject._update(self, api_obj): the instance afterwards, or the
\* exception raised
update(o, api_obj) ==
  IF ~IsInstance(o, api_obj.t) THEN Raise({ValueError})
  ELSE update_loop(o, api_obj, SetToSeq(DOMAIN get_attributes(o.t)))

\* The values and documents the model draws from.
Stamp(v) ==
  IF v = 1 THEN "2013-01-02T03:04:05.000006Z" ELSE "1999-12-31T23:59:59.999999Z"

Scalar(v) == IF v = 1 THEN PyInt(1) ELSE PyStr("x")

Variants == {1, 2}

\* A JSON value the descriptor attr decodes, and the document of a record of
\* class cls with every attribute given one, records nested depth deep.
RECURSIVE GoodJson(_, _, _), FullDoc(_, _, _)
GoodJson(attr, depth, v) ==
  IF ~attr.present \/ attr.atype = "" THEN Scalar(v)
  ELSE IF attr.atype = DateTimeType THEN PyStr(Stamp(v))
  ELSE IF depth = 0 THEN PyNone
  ELSE IF attr.is_api_list
    THEN PyDict([items |-> PyList(<<FullDoc(attr.atype, depth - 1, v)>>)])
  ELSE FullDoc(attr.atype, depth - 1, v)

FullDoc(cls, depth, v) ==
  PyDict(Explicit([n \in DOMAIN get_attributes(cls) |->
                     GoodJson(get_attributes(cls)[n], depth, v)]))

\* Names to construct, assign and decode: the schema's, one it lacks, and the
\* two of the whitelist.
Names(cls) == DOMAIN get_attributes(cls) \cup {"bogus"} \cup WHITELIST

Single(n, v) == Explicit([m \in {n} |-> v])

\* Keyword arguments of a constructor call: none, or one.
Kwargs(cls) ==
  {EmptyDict} \cup {Single(n, Scalar(v)) : n \in Names(cls), v \in Variants}

JsonValues(cls, n) ==
  {PyNone, PyInt(1), PyStr("x")}
    \cup (IF n \in DOMAIN get_attributes(cls)
            THEN {GoodJson(get_attributes(cls)[n], MaxDepth, 1)} ELSE {})

\* JSON objects to decode: empty, of one key, of one key beside a name the
\* schema lacks, and fully populated.
Docs(cls) ==
  {EmptyDict}
    \cup UNION {{Single(n, v) : v \in JsonValues(cls, n)} : n \in Names(cls)}
    \cup UNION {{Put(Single(n, v), "bogus", PyInt(1)) : v \in JsonValues(cls, n)} :
                  n \in DOMAIN get_attributes(cls)}
    \cup {FullDoc(cls, 0, v).d : v \in Variants}

\* A class that neither derives from cls nor is derived from by it - or, for
\* BaseApiObject, a class derived from it.
OtherClass(cls) == IF cls = "ApiCommand" THEN "ApiConfig" ELSE "ApiCommand"

\* The instances _update is handed: of the same class, decoded with every
\* attribute set or just constructed, of the base class, and of another class.
Others(cls) ==
  { from_json_dict(cls, FullDoc(cls, 0, 2), ResourceRoot),
    Construct(cls, ResourceRoot, EmptyDict),
    Construct("BaseApiObject", ResourceRoot, EmptyDict),
    from_json_dict(OtherClass(cls), FullDoc(OtherClass(cls), 0, 2), ResourceRoot) }

\* One of the exceptions res can be, or res itself.
Outcomes(res) == 
  The({ IF IsRaise(r) THEN {Raise({e}) : e \in r.es} ELSE {r} : r \in {res} })

Op(op, cls, name, arg, other, pre, out) ==
  [op |-> op, cls |-> cls, name |-> name, arg |-> arg, other |-> other,
   pre |-> pre, out |-> out]

NoOp == Op("none", "", "", PyNone, PyNone, PyNone, PyNone)

\* An operation that made or changed an instance leaves it in obj; one that
\* raised leaves obj as it was.
Done(op, cls, name, arg, other, out) ==
  /\ last' = Op(op, cls, name, arg, other, obj, out)
  /\ obj' = IF IsRaise(out) THEN obj ELSE out

\* obj = cls(resource_root, **kwargs)
ObjConstruct(cls, kwargs) ==
  /\ last = NoOp
  /\ \E out \in {Construct(cls, ResourceRoot, kwargs)} :
       Done("construct", cls, "", PyDict(kwargs), PyNone, out)
  /\ UNCHANGED <<nmut, cmdvars, codecvars>>

\* obj = cls.from_json_dict(dic, resource_root); of the exceptions the items
\* of dic can raise, the one of the item visited first
ObjDecode(cls, dic) ==
  /\ last = NoOp
  /\ \E out \in Outcomes(from_json_dict(cls, PyDict(dic), ResourceRoot)) :
       Done("decode", cls, "", PyDict(dic), PyNone, out)
  /\ UNCHANGED <<nmut, cmdvars, codecvars>>

\* obj.name = val
ObjSetAttr ==
  /\ obj # PyNone
  /\ nmut < MaxMut
  /\ nmut' = nmut + 1
  /\ \E name \in Names(obj.t), v \in Variants :
       \E out \in {setattr(obj, name, Scalar(v))} :
         Done("setattr", obj.t, name, Scalar(v), PyNone, out)
  /\ UNCHANGED <<cmdvars, codecvars>>

\* obj._update(api_obj)
ObjUpdate ==
  /\ obj # PyNone
  /\ nmut < MaxMut
  /\ nmut' = nmut + 1
  /\ \E api_obj \in Others(obj.t) :
       \E out \in {update(obj, api_obj)} :
         Done("update", obj.t, "", PyNone, api_obj, out)
  /\ UNCHANGED <<cmdvars, codecvars>>

ObjNext ==
  \/ \E cls \in Classes : \E kwargs \in Kwargs(cls) : ObjConstruct(cls, kwargs)
  \/ \E cls \in Classes : \E dic \in Docs(cls) : ObjDecode(cls, dic)
  \/ ObjSetAttr
  \/ ObjUpdate

-----------------------------------------------------------------------------
(* Decoding and encoding: records there and back, config attributes *)

\* Bound of the model.
MaxEntries == 2    \* entries of a config envelope

\* The documents decoded and encoded again: those of Docs, and the fully
\* populated ones with their nested records.
CodecDocs(cls) ==
  Docs(cls) \cup {FullDoc(cls, d, v).d : d \in 0..MaxDepth, v \in Variants}

\* The entries of a config envelope: the name alone, name and value, and
\* name and value with one or two fields more.
ConfigFields ==
  { {"name"}, {"name", "value"}, {"name", "value", "required"},
    {"name", "value", "required", "default"} }

ConfigEntry(fields, i) ==
  PyDict(Explicit([f \in fields |->
    IF f = "name" THEN PyStr(IF i = 1 THEN "a" ELSE "b")
    ELSE IF f = "required" THEN PyBool(TRUE)
    ELSE PyStr(f \o (IF i = 1 THEN "1" ELSE "2"))]))

Envelopes ==
  { PyDict([items |-> PyList(Explicit([i \in 1..len |-> ConfigEntry(fields, i)]))]) :
      len \in 0..MaxEntries, fields \in ConfigFields }

\* dec = cls.from_json_dict(dic, resource_root)
CodecDecode(cls, dic) ==
  /\ stage = "start"
  /\ stage' = "decoded"
  /\ ctype' = cls
  /\ input' = PyDict(dic)
  /\ dec' \in Outcomes(from_json_dict(cls, PyDict(dic), ResourceRoot))
  /\ UNCHANGED <<cattr, enc, redec, cmdvars, objvars>>

\* enc = dec.to_json_dict(preserve_ro=True)
CodecEncode ==
  /\ stage = "decoded"
  /\ ~IsRaise(dec)
  /\ stage' = "encoded"
  /\ enc' \in Outcomes(to_json_dict(dec, TRUE))
  /\ UNCHANGED <<ctype, cattr, input, dec, redec, cmdvars, objvars>>

\* redec = cls.from_json_dict(enc, resource_root)
CodecRedecode ==
  /\ stage = "encoded"
  /\ ~IsRaise(enc)
  /\ stage' = "redecoded"
  /\ redec' \in Outcomes(from_json_dict(ctype, enc, ResourceRoot))
  /\ UNCHANGED <<ctype, cattr, input, dec, enc, cmdvars, objvars>>

\* dec = Attr(ApiConfig).from_json(resource_root, data)
CodecConfig(data) ==
  /\ stage = "start"
  /\ stage' = "config"
  /\ cattr' = Attr("ApiConfig", TRUE, FALSE)
  /\ input' = data
  /\ dec' \in Outcomes(from_json(Attr("ApiConfig", TRUE, FALSE), ResourceRoot, data))
  /\ UNCHANGED <<ctype, enc, redec, cmdvars, objvars>>

CodecNext ==
  \/ \E cls \in Classes : \E dic \in CodecDocs(cls) : CodecDecode(cls, dic)
  \/ CodecEncode
  \/ CodecRedecode
  \/ \E data \in Envelopes : CodecConfig(data)

-----------------------------------------------------------------------------
(* Specifications *)

\* No instance under test, no operation applied.
ObjQuiet == obj = PyNone /\ last = NoOp /\ nmut = 0

\* Nothing decoded or encoded.
CodecQuiet ==
  /\ stage = "start" /\ ctype = "" /\ cattr = NoAttr
  /\ input = PyNone /\ dec = PyNone /\ enc = PyNone /\ redec = PyNone

\* The command poller: one call of fetch(), abort() or wait() on a command.
SpecCmdInit == CmdInit /\ ObjQuiet /\ CodecQuiet

SpecCmd == SpecCmdInit /\ [][CmdNext]_vars

\* The same, with a clock that advances (a request that takes time happens
\* again and again while wait() keeps asking) and a sleep that returns.
FairSpecCmd ==
  /\ SpecCmd
  /\ SF_vars(SlowFetch)
  /\ WF_vars(\E over \in 0..MaxOversleep : WaitSleep(over))

\* One instance: made by a constructor or decoded, then assigned to and
\* updated from other instances.
SpecObjInit == CmdQuiet /\ ObjQuiet /\ CodecQuiet

SpecObj == SpecObjInit /\ [][ObjNext]_vars

\* One document: decoded, encoded with its read-only attributes and decoded
\* again, or decoded through a config attribute.
SpecCodecInit == CmdQuiet /\ ObjQuiet /\ CodecQuiet

SpecCodec == SpecCodecInit /\ [][CodecNext]_vars

-----------------------------------------------------------------------------
(* ApiCommand: properties of fetch, wait and abort *)

Sentinel == self.obj.a["id"] = PyInt(SYNCHRONOUS_COMMAND_ID)

Attached == self.obj.r = ResourceRoot

Called(op) == pc # "idle" /\ call.op = op

\* C1: on a command whose id is the sentinel -1, fetch(), abort() and wait()
\* (with a timeout or without) make no request of the resource root, do not
\* sleep, and return the instance they were called on, whatever its other
\* attributes and whether or not it has a resource root.
SentinelReturnsSelf ==
  (pc # "idle" /\ Sentinel) =>
    /\ pc = "returned"
    /\ result = self
    /\ requests = <<>>
    /\ sleeps = <<>>
    /\ polls = <<>>

SentinelWaitReturned ==
  /\ Called("wait") /\ call.timeout = PyInt(MaxTimeout) /\ Sentinel
  /\ ~Attached /\ Truthy(self.obj.a["active"])
  /\ pc = "returned" /\ result = self

\* C2: on a command that is not the sentinel, wait() without a timeout returns
\* only a snapshot that is not active, and at the first such fetch: every
\* fetch before the last found the command active, the call has returned as
\* soon as one did not, and what it returns is that last snapshot, after as
\* many requests as there were fetches.
WaitReturnsAtFirstInactive ==
  (Called("wait") /\ call.timeout = PyNone /\ ~Sentinel) =>
    /\ \A i \in 1..(Len(polls) - 1) : polls[i]
    /\ (polls # <<>> /\ ~polls[Len(polls)]) => pc = "returned"
    /\ pc = "returned" =>
         /\ polls # <<>> /\ ~polls[Len(polls)]
         /\ Len(requests) = Len(polls)
         /\ result = cmd
         /\ result = Ref(Len(polls), result.obj)
         /\ ~Truthy(result.obj.a["active"])

WaitReturnedAtSecondPoll ==
  /\ Called("wait") /\ call.timeout = PyNone /\ ~Sentinel
  /\ pc = "returned" /\ polls = <<TRUE, FALSE>> /\ Len(sleeps) = 1

\* C3, as the specification states it: on a command that is not the sentinel,
\* wait(timeout=0) fetches once, does not sleep and does not fetch again,
\* whatever the clock reads.
WaitZeroFetchesOnce ==
  (Called("wait") /\ call.timeout = PyInt(0) /\ ~Sentinel /\ Attached) =>
    /\ sleeps = <<>>
    /\ Len(requests) <= 1

TimedWait == Called("wait") /\ call.timeout.k = "int" /\ ~Sentinel /\ Attached

\* C4: on a command that is not the sentinel, wait(timeout=t) with t >= 0
\* returns in the end, provided the clock advances and every fetch and sleep
\* returns; it raises nothing; what it returns is the snapshot fetched last;
\* and it returns a snapshot that is still active only when the clock, read
\* after that fetch, is past the deadline (the time of the call plus t).
TimedWaitReturnsLatestSnapshot ==
  /\ [](TimedWait =>
         /\ pc # "raised"
         /\ pc = "returned" =>
              /\ result = cmd
              /\ result = Ref(Len(requests), result.obj)
              /\ Len(requests) = Len(polls)
              /\ Truthy(result.obj.a["active"]) =>
                   /\ deadline = PyInt(call.timeout.i)
                   /\ now = clock
                   /\ deadline.i < now)
  /\ (TimedWait ~> pc = "returned")

TimedWaitReturnedActive ==
  /\ TimedWait /\ pc = "returned"
  /\ Truthy(result.obj.a["active"])
  /\ polls = <<TRUE, TRUE>> /\ Len(sleeps) = 1
  /\ deadline.i < now

Polling == Called("wait") /\ ~Sentinel /\ Attached

\* C11: in wait() on a command that is not the sentinel, every turn of the
\* loop makes one fetch and then, unless the call ends there, one sleep, so
\* fetches and sleeps alternate; the duration asked of a sleep is 5 when no
\* timeout was given and the lesser of 5 and (deadline - now) when one was,
\* now being the clock read after the fetch; so the duration is never
\* negative, never more than 5, and now plus the duration is never after the
\* deadline.
WaitAlternatesFetchAndBoundedSleep ==
  /\ [](Polling =>
         /\ pc = "wait_fetch" => Len(requests) = Len(sleeps)
         /\ pc \in {"wait_sleep", "returned"} =>
              Len(requests) = Len(sleeps) + 1
         /\ pc = "raised" =>
              Len(requests) \in {Len(sleeps), Len(sleeps) + 1}
         /\ \A i \in DOMAIN sleeps :
              /\ sleeps[i] \in 0..5
              /\ call.timeout = PyNone => sleeps[i] = 5)
  /\ [][(Polling /\ pc = "wait_fetch") =>
          /\ sleeps' = sleeps
          /\ pc' \in {"wait_sleep", "returned", "raised"}
          /\ Len(requests') <= Len(requests) + 1
          /\ pc' = "wait_sleep" => Len(requests') = Len(requests) + 1]_vars
  /\ [][(Polling /\ pc = "wait_sleep") =>
          /\ pc' = "wait_fetch"
          /\ requests' = requests
          /\ \E t \in 0..5 :
               /\ sleeps' = Append(sleeps, t)
               /\ clock' >= clock + t
               /\ IF call.timeout = PyNone
                    THEN t = 5
                    ELSE /\ deadline = PyInt(call.timeout.i)
                         /\ t <= deadline.i - now
                         /\ t = 5 \/ t = deadline.i - now
                         /\ now + t <= deadline.i]_vars

WaitSleptToTheDeadline ==
  /\ Polling /\ call.timeout = PyInt(MaxTimeout)
  /\ pc = "returned"
  /\ sleeps = <<5, MaxTimeout - 5>>
  /\ Len(requests) = 3

-----------------------------------------------------------------------------
(* BaseApiObject: properties of construction, decoding, assignment, _update *)

ReadOnlyNames(cls) ==
  {n \in DOMAIN get_attributes(cls) :
     get_attributes(cls)[n].present /\ ~get_attributes(cls)[n].rw}

Untyped(attr) == ~attr.present \/ attr.atype = ""

\* The last operation was given the one item n: v.
OneItem(n) == DOMAIN last.arg.d = {n}

\* What decoding {n: v} into a record of class cls stores under n when v is
\* null, n has no type, or n is a timestamp and v the text of Stamp(1).
StoredFor(cls, n, v) ==
  IF v = PyNone \/ Untyped(get_attributes(cls)[n]) THEN v
  ELSE PyDateTime(2013, 1, 2, 3, 4, 5, 6)

\* C5, as the code has it: a read-only attribute passed to the constructor
\* makes no instance - the call raises the read-only error, or, in a class
\* whose own __init__ does not declare the name, the interpreter's TypeError;
\* assigning it on an instance always raises the read-only error and leaves
\* the instance as it was; decoding {n: v} for a read-only n never raises the
\* read-only error, and succeeds, storing the decoded value under n, exactly
\* when v is null, n has no type, or v is well formed for n's type.
ReadOnlyEnforced ==
  /\ (last.op = "construct" /\ DOMAIN last.arg.d \cap ReadOnlyNames(last.cls) # {}) =>
       /\ obj = PyNone
       /\ last.out = IF HasOwnInit(last.cls)
                       THEN Raise({TypeError}) ELSE Raise({ReadOnly})
  /\ (last.op = "setattr" /\ last.name \in ReadOnlyNames(last.cls)) =>
       /\ last.out = Raise({ReadOnly})
       /\ obj = last.pre
  /\ (last.op = "decode") =>
       \A n \in DOMAIN last.arg.d \cap ReadOnlyNames(last.cls) :
         /\ last.out # Raise({ReadOnly})
         /\ OneItem(n) =>
              LET v == last.arg.d[n]
                  attr == get_attributes(last.cls)[n]
                  fits == v = PyNone \/ Untyped(attr) \/ v = GoodJson(attr, MaxDepth, 1)
              IN /\ IsRaise(last.out) <=> ~fits
                 /\ fits => /\ obj = last.out
                            /\ n \in DOMAIN obj.a
                            /\ obj.a[n] # PyNone <=> v # PyNone
                 /\ (fits /\ (v = PyNone \/ Untyped(attr) \/ attr.atype = DateTimeType))
                      => obj.a[n] = StoredFor(last.cls, n, v)

ReadOnlyAssignmentRefused ==
  /\ last.op = "setattr" /\ last.cls = "ApiCommand" /\ last.name = "active"
  /\ last.out = Raise({ReadOnly})
  /\ "active" \in DOMAIN obj.a /\ obj.a["active"] = PyInt(1)

\* C5, as the specification states it: construction with a read-only
\* attribute and assignment of one always raise the read-only error, and
\* decoding {n: v} for a read-only n always succeeds and stores a value.
ReadOnlyErrorAlways ==
  /\ (last.op = "construct" /\ DOMAIN last.arg.d \cap ReadOnlyNames(last.cls) # {}) =>
       last.out = Raise({ReadOnly}) /\ obj = PyNone
  /\ (last.op = "setattr" /\ last.name \in ReadOnlyNames(last.cls)) =>
       last.out = Raise({ReadOnly}) /\ obj = last.pre
  /\ (last.op = "decode") =>
       \A n \in DOMAIN last.arg.d \cap ReadOnlyNames(last.cls) :
         OneItem(n) => ~IsRaise(last.out) /\ n \in DOMAIN obj.a

UnknownNames(cls) == Names(cls) \ DOMAIN get_attributes(cls)

\* C6, as the code has it: a name the schema lacks makes the constructor
\* raise - the unknown-attribute error, or the interpreter's TypeError in a
\* class with its own __init__ - and makes decoding raise - the
\* unknown-attribute error when the name is the document's only key;
\* assigning it raises the unknown-attribute error and leaves the instance as
\* it was, unless the name is _resource_root or _attributes, which are
\* assigned; so an instance holds names of its schema and, at most,
\* _attributes beside them.
UnknownNamesRejected ==
  /\ (last.op = "construct" /\ DOMAIN last.arg.d \cap UnknownNames(last.cls) # {}) =>
       /\ obj = PyNone
       /\ last.out = IF HasOwnInit(last.cls)
                       THEN Raise({TypeError}) ELSE Raise({InvalidProperty})
  /\ (last.op = "decode" /\ DOMAIN last.arg.d \cap UnknownNames(last.cls) # {}) =>
       /\ obj = PyNone
       /\ IsRaise(last.out)
       /\ (\E n \in UnknownNames(last.cls) : OneItem(n))
            => last.out = Raise({InvalidProperty})
  /\ (last.op = "setattr" /\ last.name \in UnknownNames(last.cls)) =>
       IF last.name = "_resource_root"
         THEN obj = [last.pre EXCEPT !.r = last.arg]
       ELSE IF last.name = "_attributes"
         THEN /\ obj.a["_attributes"] = last.arg
              /\ \A n \in DOMAIN last.pre.a \ {"_attributes"} :
                   obj.a[n] = last.pre.a[n]
       ELSE last.out = Raise({InvalidProperty}) /\ obj = last.pre
  /\ obj # PyNone =>
       DOMAIN obj.a \subseteq DOMAIN get_attributes(obj.t) \cup {"_attributes"}

UnknownAssignmentRefused ==
  /\ last.op = "setattr" /\ last.name = "bogus"
  /\ last.out = Raise({InvalidProperty})
  /\ obj = last.pre /\ obj.t = "ApiReplicationSchedule"

\* C6, as the specification states it: constructing, assigning or decoding a
\* name the schema lacks raises the unknown-attribute error, and an instance
\* holds names of its schema only.
UnknownAttributeErrorAlways ==
  /\ (last.op \in {"construct", "decode"}
        /\ DOMAIN last.arg.d \cap UnknownNames(last.cls) # {}) =>
       last.out = Raise({InvalidProperty})
  /\ (last.op = "setattr" /\ last.name \in UnknownNames(last.cls)
        /\ last.name # "_resource_root") =>
       last.out = Raise({InvalidProperty})
  /\ obj # PyNone => DOMAIN obj.a \subseteq DOMAIN get_attributes(obj.t)

\* C7, as the specification states it: after self._update(other) has
\* returned, self holds other's value for every attribute of the schema that
\* other has, read-only ones too, and is as before for the others.
UpdateCopiesEveryAttribute ==
  (last.op = "update" /\ ~IsRaise(last.out)) =>
    \A n \in DOMAIN get_attributes(obj.t) :
      IF n \in DOMAIN last.other.a
        THEN n \in DOMAIN obj.a /\ obj.a[n] = last.other.a[n]
        ELSE /\ n \in DOMAIN obj.a <=> n \in DOMAIN last.pre.a
             /\ n \in DOMAIN obj.a => obj.a[n] = last.pre.a[n]

\* C8, as the code has it: self._update(other) raises ValueError exactly when
\* self is not an instance of other's class - it takes an other of self's
\* class or of a class self's derives from, and refuses an other of a class
\* derived from self's or unrelated to it - and leaves self as it was when it
\* raises.
UpdateRefusedUnlessSelfDerives ==
  last.op = "update" =>
    /\ IsRaise(last.out) <=>
         ~(last.other.t = last.pre.t \/ last.other.t = "BaseApiObject")
    /\ IsRaise(last.out) => last.out = Raise({ValueError}) /\ obj = last.pre

UpdateFromBaseTaken ==
  /\ last.op = "update" /\ last.pre.t = "ApiCmPeer"
  /\ last.other.t = "BaseApiObject"
  /\ ~IsRaise(last.out)

\* C8, as the specification states it: self._update(other) raises exactly
\* when other is not an instance of self's class - it takes an other of
\* self's class or of a class derived from it, and refuses the rest.
UpdateRefusedUnlessOtherDerives ==
  last.op = "update" =>
    /\ IsRaise(last.out) <=>
         ~(last.other.t = last.pre.t \/ last.pre.t = "BaseApiObject")
    /\ IsRaise(last.out) => obj = last.pre

-----------------------------------------------------------------------------
(* Properties of decoding and encoding *)

\* The document decoded had every attribute of the schema populated.
Populated == \E v \in Variants : input = FullDoc(ctype, MaxDepth, v)

\* C9, as the specification states it: an instance with every attribute of
\* its schema populated - read-only attributes, nested records and lists of
\* records too - is encoded with its read-only attributes without error, and
\* decoding the encoding gives an instance with the same attribute values.
RoundTripExact ==
  (stage \in {"encoded", "redecoded"} /\ Populated) =>
    /\ ~IsRaise(enc)
    /\ stage = "redecoded" => redec = dec

ConfigKey(entry) == entry.d["name"].s

\* C10, as the specification states it: through a config attribute an
\* envelope without entries decodes to the empty dict; one whose first entry
\* has two fields decodes to the summary, each name with the entry's raw
\* value; one whose first entry has more decodes to the full view, each name
\* with an ApiConfig record.
ConfigShapeByFieldCount ==
  stage = "config" =>
    LET entries == input.d[LIST_KEY].l
    IN IF entries = <<>> THEN dec = PyDict(EmptyDict)
       ELSE IF Cardinality(DOMAIN entries[1].d) = 2
         THEN /\ dec.k = "dict"
              /\ \A i \in DOMAIN entries :
                   dec.d[ConfigKey(entries[i])] = entries[i].d["value"]
       ELSE IF Cardinality(DOMAIN entries[1].d) > 2
         THEN /\ dec.k = "dict"
              /\ \A i \in DOMAIN entries :
                   /\ dec.d[ConfigKey(entries[i])].k = "obj"
                   /\ dec.d[ConfigKey(entries[i])].t = "ApiConfig"
       ELSE TRUE

=============================================================================
